---- MODULE Spec2Model ----
(***************************************************************************)
(* Model of the generation service of rag-question-generator:              *)
(*   app/services/qg_service.py       retrieval, agents, validator, facade *)
(*   app/api/endpoints/generate.py    POST /generate/questions             *)
(*   app/api/endpoints/ingest.py      POST /ingest                         *)
(*   app/services/document_service.py ingestion of a PDF into the index    *)
(*                                                                         *)
(* Python strings are sequences of one-character strings, so that lower(), *)
(* split(" ") and the substring test are computed, not assumed.            *)
(* Optional[str] is a sequence of length 0 (None) or 1 (the string).       *)
(* A dict is a record; `key in d` is `key \in DOMAIN d`.                   *)
(***************************************************************************)
EXTENDS Integers, Sequences, FiniteSets, TLC

\* ---------------------------------------------------------------- bounds
MaxTopicLen == 3        \* longest topic string enumerated
MaxLLMItems == 2        \* longest question list the LLM returns

\* ------------------------------------------------------- Python strings
None == <<>>
Some(s) == <<s>>

\* `if x:` on an Optional[str]: None and "" are both falsy
Truthy(opt) == Len(opt) = 1 /\ Len(opt[1]) > 0

LowerChar(c) == IF c = "E" THEN "e" ELSE IF c = "X" THEN "x" ELSE c

\* str.lower()
Lower(s) == [i \in 1..Len(s) |-> LowerChar(s[i])]

\* `needle in hay` for two strings
Contains(hay, needle) ==
  \E i \in 0..(Len(hay) - Len(needle)) : SubSeq(hay, i + 1, i + Len(needle)) = needle

\* str.split(sep) with an explicit one-character separator: empty pieces are kept
RECURSIVE Split(_, _)
Split(s, sep) ==
  IF \A i \in 1..Len(s) : s[i] # sep
    THEN <<s>>
    ELSE LET i == CHOOSE j \in 1..Len(s) : s[j] = sep /\ \A h \in 1..(j - 1) : s[h] # sep
         IN  <<SubSeq(s, 1, i - 1)>> \o Split(SubSeq(s, i + 1, Len(s)), sep)

\* dict.get(key, "") on a question item
Get(q, key) == IF key \in DOMAIN q THEN q[key] ELSE <<>>

\* the blank placeholder "_________" (nine underscores)
BlankLen == 9
BLANK == [i \in 1..BlankLen |-> "_"]

\* ------------------------------------------------------------ validator
\* variant: the `if topic` guard is missing, so None.lower() raises
topic_word_unguarded(topic) ==
  IF Len(topic) = 0
    THEN [raised |-> TRUE, val |-> None]
    ELSE LET parts == Split(Lower(topic[1]), " ")
         IN  [raised |-> FALSE, val |-> Some(parts[Len(parts)])]

\* topic_word = topic.lower().split(" ")[-1] if topic else None
\* raised: an IndexError of [-1] or an AttributeError of None.lower()
topic_word(topic) ==
  IF Truthy(topic)
    THEN LET parts == Split(Lower(topic[1]), " ")
         IN  IF Len(parts) = 0
               THEN [raised |-> TRUE, val |-> None]
               ELSE [raised |-> FALSE, val |-> Some(parts[Len(parts)])]
    ELSE [raised |-> FALSE, val |-> None]

\* variant: the shape rule on `sentence` is missing
keeps_no_shape_rule(q, tw) ==
  /\ Len(Get(q, "correct_answer")) > 0
  /\ (Truthy(tw) =>
        Contains(Lower(Get(q, "question") \o Get(q, "explanation") \o Get(q, "sentence")), tw[1]))

\* variant: the non-empty answer rule is missing
keeps_no_answer_rule(q, tw) ==
  /\ ~("sentence" \in DOMAIN q /\ ~Contains(Get(q, "sentence"), BLANK))
  /\ (Truthy(tw) =>
        Contains(Lower(Get(q, "question") \o Get(q, "explanation") \o Get(q, "sentence")), tw[1]))

\* one pass of the loop body: TRUE when q reaches validated_questions.append(q)
keeps(q, tw) ==
  /\ ~("sentence" \in DOMAIN q /\ ~Contains(Get(q, "sentence"), BLANK))
  /\ Len(Get(q, "correct_answer")) > 0
  /\ (Truthy(tw) =>
        Contains(Lower(Get(q, "question") \o Get(q, "explanation") \o Get(q, "sentence")), tw[1]))

\* variant: a kept item is rebuilt with source_page reset
RECURSIVE filter_questions_rebuilding(_, _)
filter_questions_rebuilding(qs, tw) ==
  IF qs = <<>> THEN <<>>
  ELSE (IF keeps(Head(qs), tw) THEN <<[Head(qs) EXCEPT !.source_page = 0]>> ELSE <<>>)
         \o filter_questions_rebuilding(Tail(qs), tw)

\* variant: a kept item is appended twice
RECURSIVE filter_questions_append_twice(_, _)
filter_questions_append_twice(qs, tw) ==
  IF qs = <<>> THEN <<>>
  ELSE (IF keeps(Head(qs), tw) THEN <<Head(qs), Head(qs)>> ELSE <<>>)
         \o filter_questions_append_twice(Tail(qs), tw)

\* variant: the loop starts at the second item
RECURSIVE filter_questions_from_second(_, _)
filter_questions_from_second(qs, tw) ==
  IF qs = <<>> THEN <<>>
  ELSE LET rest == Tail(qs)
       IN  IF rest = <<>> THEN <<>>
           ELSE (IF keeps(Head(rest), tw) THEN <<Head(rest)>> ELSE <<>>)
                  \o filter_questions_from_second(<<Head(qs)>> \o Tail(rest), tw)

\* variant: a kept item is inserted at the front of validated_questions
RECURSIVE filter_questions_insert_front(_, _)
filter_questions_insert_front(qs, tw) ==
  IF qs = <<>> THEN <<>>
  ELSE filter_questions_insert_front(Tail(qs), tw)
         \o (IF keeps(Head(qs), tw) THEN <<Head(qs)>> ELSE <<>>)

RECURSIVE filter_questions(_, _)
filter_questions(qs, tw) ==
  IF qs = <<>> THEN <<>>
  ELSE (IF keeps(Head(qs), tw) THEN <<Head(qs)>> ELSE <<>>) \o filter_questions(Tail(qs), tw)

\* validate_and_filter_output(output, topic)
validate_and_filter_output(output, topic) ==
  IF "questions" \notin DOMAIN output
    THEN [raised |-> FALSE, output |-> output]
    ELSE LET tw == topic_word(topic)
         IN  IF tw.raised
               THEN [raised |-> TRUE, output |-> output]
               ELSE [raised |-> FALSE,
                     output |-> [output EXCEPT !.questions = filter_questions(output.questions, tw.val)]]

\* ------------------------------------------------------------ documents
\* What PyPDFLoader + the text splitter make of each uploadable file: a list
\* of chunks, each with metadata (`page` may be missing from a stored chunk).
chunk(text, page) == [page_content |-> text, metadata |-> [source |-> "pdf", page |-> page]]
chunk_nopage(text) == [page_content |-> text, metadata |-> [source |-> "pdf"]]

NoIndex == 0
DocIds == {1, 2}
Splits(d) ==
  CASE d = 1 -> <<chunk("c1", 2), chunk("c2", 1), chunk("c3", 2)>>
    [] d = 2 -> <<chunk_nopage("d1"), chunk("d2", 3)>>
    [] OTHER -> <<>>

Files ==
  { [filename |-> "a.pdf", content_type |-> "application/pdf", doc |-> 1],
    [filename |-> "b.pdf", content_type |-> "application/pdf", doc |-> 2],
    [filename |-> "e.pdf", content_type |-> "application/pdf", doc |-> 0],
    [filename |-> "t.txt", content_type |-> "text/plain", doc |-> 0] }

\* ------------------------------------------------------- request inputs
Str(n) == UNION {[1..m -> {"E", "e", "x", " ", "\t"}] : m \in 0..n}
AllTopics == {None} \cup {Some(s) : s \in Str(MaxTopicLen)}

Topics == {None, Some(<<"e">>), Some(<<"x", " ", "E">>), Some(<<"x", " ", "e", " ">>)}
ContentTypes == {"MCQ", "FillInTheBlank", "Summary"}

\* a field of the JSON body: left out, null, or an integer
Omitted == <<>>
Null == <<None>>
Val(n) == <<Some(n)>>

ContentTypeValues == ContentTypes \cup {"Essay"}
NumQuestionsValues == {Omitted, Null, Val(0), Val(1), Val(11)}
ContextChunksValues == {Omitted, Null, Val(0), Val(1), Val(16)}

Bodies ==
  [topic : Topics, content_type : ContentTypeValues,
   num_questions : NumQuestionsValues, context_chunks : ContextChunksValues]

DefaultNumQuestions == 3
MaxNumQuestions == 10
DefaultContextChunks == 5
MaxContextChunks == 15

\* variant: the le=10 bound is missing
parse_num_questions_no_le(raw) ==
  IF Len(raw) = 0 THEN [ok |-> TRUE, val |-> Some(DefaultNumQuestions)]
  ELSE IF Len(raw[1]) = 0 THEN [ok |-> TRUE, val |-> None]
  ELSE [ok |-> raw[1][1] > 0, val |-> raw[1]]

\* num_questions: Optional[int] = Field(3, gt=0, le=10): null is accepted as None
parse_num_questions(raw) ==
  IF Len(raw) = 0 THEN [ok |-> TRUE, val |-> Some(DefaultNumQuestions)]
  ELSE IF Len(raw[1]) = 0 THEN [ok |-> TRUE, val |-> None]
  ELSE [ok |-> raw[1][1] > 0 /\ raw[1][1] <= MaxNumQuestions, val |-> raw[1]]

\* context_chunks: int = Field(5, gt=0, le=15): null is not an int
parse_context_chunks(raw) ==
  IF Len(raw) = 0 THEN [ok |-> TRUE, val |-> DefaultContextChunks]
  ELSE IF Len(raw[1]) = 0 THEN [ok |-> FALSE, val |-> 0]
  ELSE [ok |-> raw[1][1] > 0 /\ raw[1][1] <= MaxContextChunks, val |-> raw[1][1]]

\* variant: topic is a required field
validate_request_topic_required(b) ==
  LET nq == parse_num_questions(b.num_questions)
      cc == parse_context_chunks(b.context_chunks)
  IN  [ok |-> Len(b.topic) = 1 /\ b.content_type \in ContentTypes /\ nq.ok /\ cc.ok,
       request |-> [topic |-> b.topic, content_type |-> b.content_type,
                    num_questions |-> nq.val, context_chunks |-> cc.val]]

\* the request model built from the body; ok = FALSE is a validation error,
\* answered by the framework before the endpoint function is called
validate_request(b) ==
  LET nq == parse_num_questions(b.num_questions)
      cc == parse_context_chunks(b.context_chunks)
  IN  [ok |-> b.content_type \in ContentTypes /\ nq.ok /\ cc.ok,
       request |-> [topic |-> b.topic, content_type |-> b.content_type,
                    num_questions |-> nq.val, context_chunks |-> cc.val]]

\* ---------------------------------------------------------- LLM outputs
\* Schema-conforming items the structured-output call may come back with.
mcq(q, o, a, e, p) ==
  [question |-> q, options |-> o, correct_answer |-> a, explanation |-> e, source_page |-> p]
fitb(s, a, p) == [sentence |-> s, correct_answer |-> a, source_page |-> p]

MCQPool ==
  { mcq(<<"x", " ", "E", "?">>, << <<"x">>, <<"x", "x">> >>, <<"x">>, <<"x">>, 1),
    mcq(<<"x", "?">>, << <<"x", "x">> >>, <<"x">>, <<"x">>, 2),
    mcq(<<"e", "?">>, << <<"e">>, <<"x">> >>, <<>>, <<>>, 1),
    mcq(<<"x">>, << <<"e">>, <<"x", "x">> >>, <<"e">>, <<"e", " ", "x">>, 9) }

FITBPool ==
  { fitb(<<"e", " ">> \o BLANK, <<"x">>, 1),
    fitb(<<"x">> \o BLANK \o <<" ">> \o BLANK, <<"e">>, 9),
    fitb(<<"e", " ">> \o SubSeq(BLANK, 1, BlankLen - 1), <<"x">>, 1),
    fitb(BLANK \o <<" ", "x">>, <<>>, 2) }

SeqUpTo(S, n) == UNION {[1..m -> S] : m \in 0..n}

MCQsResults == {[questions |-> qs] : qs \in SeqUpTo(MCQPool, MaxLLMItems)}
FillInTheBlanksResults == {[questions |-> qs] : qs \in SeqUpTo(FITBPool, MaxLLMItems)}
SummaryResults ==
  {[summary_text |-> t, source_pages |-> ps] :
      t \in {<<>>, <<"x", " ", "e">>}, ps \in {<<>>, <<9>>, <<2, 1>>}}

\* ---------------------------------------------------------------- state
VARIABLES
  vector_store,    \* persisted index at VECTOR_STORE_PATH: NoIndex or the ingested document
  uploads,         \* filenames written under UPLOAD_DIR
  retriever,       \* module-level `retriever` of qg_service (loaded = it is not None)
  loads,           \* FAISS.load_local calls made by the process
  pc,              \* position of the request being served
  endpoint,        \* route of the request being served
  body,            \* what the client sent: the JSON body, or the uploaded file
  request,         \* the fields of the request / initial_state
  documents,       \* state["documents"]
  final_output,    \* state["final_output"], as the agent returned it
  generated_data,  \* what run_generation returned to the endpoint
  exc,             \* exception in flight
  response,        \* HTTP response of the request
  searches,        \* similarity searches performed for the request
  query,           \* query string of the last similarity search of the request
  steps,           \* graph nodes and passes executed for the request, in order
  llm_calls,       \* chain.invoke calls made for the request
  prompts,         \* the "topic" handed to each chain.invoke of the request, in order
  v_pc, v_topic, v_output, v_once, v_twice,  \* validator applied on its own
  c_pc, c_req, c_docs,                       \* threads inside retrieve_documents
  c_k                                        \* k of the search each thread performed

run_vars == <<endpoint, body, request, documents, final_output, generated_data, exc, response,
              searches, query, steps, llm_calls, prompts>>
v_vars == <<v_pc, v_topic, v_output, v_once, v_twice>>
c_vars == <<c_pc, c_req, c_docs, c_k>>

vars == <<vector_store, uploads, retriever, loads, pc, run_vars, v_vars, c_vars>>

Unset == [unset |-> TRUE]
NoExc == [type |-> "none", status_code |-> 0, detail |-> <<>>]
NoResponse == [status_code |-> 0, detail |-> <<>>]
NoRetriever == [loaded |-> FALSE, store |-> NoIndex, k |-> 0]
NoRequest == [topic |-> None, content_type |-> "none", num_questions |-> None, context_chunks |-> 0]

\* ------------------------------------------------------------ ingestion
MsgInvalidFile == "Invalid file type. Only PDF files are allowed."
MsgNoText == "Could not extract text from the PDF."

\* variant: the content type of the upload is not looked at
ingest_pdf_no_type_check ==
  /\ pc = "idle"
  /\ \E file \in Files :
       /\ body' = file
       /\ uploads' = uploads \cup {file.filename}
       /\ IF Splits(file.doc) = <<>>
            THEN /\ response' = [status_code |-> 400, detail |-> <<MsgNoText>>]
                 /\ UNCHANGED vector_store
            ELSE /\ response' = [status_code |-> 200, detail |-> <<>>]
                 /\ vector_store' = file.doc
  /\ endpoint' = "/ingest"
  /\ pc' = "responded"
  /\ UNCHANGED <<retriever, loads, request, documents, final_output, generated_data, exc,
                 searches, query, steps, llm_calls, prompts,
                 v_vars, c_vars>>

\* POST /ingest: ingest_pdf, then process_and_ingest_pdf
ingest_pdf ==
  /\ pc = "idle"
  /\ \E file \in Files :
       /\ body' = file
       /\ IF file.content_type # "application/pdf"
            THEN /\ response' = [status_code |-> 400, detail |-> <<MsgInvalidFile>>]
                 /\ UNCHANGED <<uploads, vector_store>>
            ELSE /\ uploads' = uploads \cup {file.filename}        \* open(file_path, "wb")
                 /\ IF Splits(file.doc) = <<>>
                      THEN /\ response' = [status_code |-> 400, detail |-> <<MsgNoText>>]
                           /\ UNCHANGED vector_store
                      ELSE /\ response' = [status_code |-> 200, detail |-> <<>>]
                           /\ vector_store' = file.doc             \* save_local(VECTOR_STORE_PATH)
  /\ endpoint' = "/ingest"
  /\ pc' = "responded"
  /\ UNCHANGED <<retriever, loads, request, documents, final_output, generated_data, exc,
                 searches, query, steps, llm_calls, prompts,
                 v_vars, c_vars>>

\* the vector_store directory is removed from outside the process
\* (tests/test_api.py does so before calling the endpoint)
remove_vector_store ==
  /\ pc = "idle"
  /\ vector_store # NoIndex
  /\ vector_store' = NoIndex
  /\ UNCHANGED <<uploads, retriever, loads, pc, run_vars, v_vars, c_vars>>

\* ------------------------------------------------------------ retrieval
Min(a, b) == IF a < b THEN a ELSE b

\* k of a similarity search when search_kwargs has no 'k'
DefaultK == 4

\* the k a similarity search of retriever r asks for
search_k(r) == IF r.k = 0 THEN DefaultK ELSE r.k

\* retriever.invoke(query): the k nearest chunks of the loaded store, in an
\* order that depends on the embedding of the query
invoke(r) ==
  LET chunks == Splits(r.store)
      n == Min(search_k(r), Len(chunks))
  IN  { [i \in 1..n |-> chunks[f[i]]] :
          f \in {g \in [1..n -> 1..Len(chunks)] : \A a, b \in 1..n : a # b => g[a] # g[b]} }

\* documents[:n]
Take(s, n) == SubSeq(s, 1, Min(n, Len(s)))

MsgNotFound == "Vector store not found. Please ingest a document first."
GenericQuery == [fixed |-> "general overview of the document's main concepts"]

\* the query retrieve_documents issues for a topic
query_for(topic) == IF Truthy(topic) THEN [topic |-> topic[1]] ELSE GenericQuery

\* FAISS.load_local(...).as_retriever(): a fresh retriever, search_kwargs empty
load_local(store) == [loaded |-> TRUE, store |-> store, k |-> 0]

\* the framework answers a body that fails validation with 422
Unprocessable == [status_code |-> 422, detail |-> <<"validation error">>]

\* variant: the graph is entered at the router instead of the retriever node
generate_questions_entry_at_router ==
  /\ pc = "idle"
  /\ \E b \in Bodies :
       LET v == validate_request(b)
       IN  /\ body' = b
           /\ IF v.ok
                THEN /\ request' = v.request
                     /\ pc' = "route"
                     /\ UNCHANGED response
                ELSE /\ response' = Unprocessable
                     /\ pc' = "responded"
                     /\ UNCHANGED request
  /\ endpoint' = "/generate/questions"
  /\ UNCHANGED <<vector_store, uploads, retriever, loads, documents, final_output,
                 generated_data, exc, searches, query, steps, llm_calls, prompts,
                 v_vars, c_vars>>

\* POST /generate/questions: the body is validated, then generate_questions
\* calls run_generation, which builds initial_state and enters the graph at
\* the retriever node
generate_questions ==
  /\ pc = "idle"
  /\ \E b \in Bodies :
       LET v == validate_request(b)
       IN  /\ body' = b
           /\ IF v.ok
                THEN /\ request' = v.request
                     /\ pc' = "retriever"
                     /\ UNCHANGED response
                ELSE /\ response' = Unprocessable
                     /\ pc' = "responded"
                     /\ UNCHANGED request
  /\ endpoint' = "/generate/questions"
  /\ UNCHANGED <<vector_store, uploads, retriever, loads, documents, final_output,
                 generated_data, exc, searches, query, steps, llm_calls, prompts,
                 v_vars, c_vars>>

\* def run_generation(topic, content_type, num_questions, context_chunks): no defaults
run_generation_params == <<"topic", "content_type", "num_questions", "context_chunks">>
\* qg_service.run_generation(request.topic, request.content_type) in main.py
generate_content_args == <<"topic", "content_type">>

\* the except clauses of main.generate_content, in order
main_except_clauses(e) ==
  IF e.type = "FileNotFoundError"
    THEN [status_code |-> 400, detail |-> e.detail]
    ELSE [status_code |-> 500, detail |-> <<"An unexpected error occurred: ">> \o e.detail]

\* POST /generate/content (main.py): the body is validated, then
\* generate_content calls run_generation with two positional arguments; a
\* call that does not bind every parameter raises TypeError inside the try
generate_content ==
  /\ pc = "idle"
  /\ \E b \in Bodies :
       LET v == validate_request(b)
       IN  /\ body' = b
           /\ IF ~v.ok
                THEN /\ response' = Unprocessable
                     /\ pc' = "responded"
                     /\ UNCHANGED request
                ELSE IF Len(generate_content_args) # Len(run_generation_params)
                  THEN /\ response' = main_except_clauses(
                            [type |-> "TypeError", status_code |-> 0,
                             detail |-> <<"run_generation() missing required positional arguments">>])
                       /\ pc' = "responded"
                       /\ UNCHANGED request
                  ELSE /\ request' = v.request
                       /\ pc' = "retriever"
                       /\ UNCHANGED response
  /\ endpoint' = "/generate/content"
  /\ UNCHANGED <<vector_store, uploads, retriever, loads, documents, final_output,
                 generated_data, exc, searches, query, steps, llm_calls, prompts,
                 v_vars, c_vars>>

retrieve_frame == <<vector_store, uploads, endpoint, body, request, final_output, generated_data,
                    response, llm_calls, prompts, v_vars, c_vars>>

\* variant: the index is loaded without the existence check
retrieve_documents_no_exists_check ==
  /\ pc = "retriever"
  /\ LET r == [(IF retriever.loaded THEN retriever ELSE load_local(vector_store))
                 EXCEPT !.k = request.context_chunks]
     IN  /\ retriever' = r
         /\ loads' = IF retriever.loaded THEN loads ELSE loads + 1
         /\ \E found \in invoke(r) :
              documents' = IF Truthy(request.topic) THEN found
                           ELSE Take(found, request.context_chunks)
         /\ query' = query_for(request.topic)
         /\ searches' = searches + 1
         /\ steps' = Append(steps, "retriever")
         /\ pc' = "route"
         /\ UNCHANGED exc
  /\ UNCHANGED retrieve_frame

retrieve_documents ==
  /\ pc = "retriever"
  /\ IF ~retriever.loaded /\ vector_store = NoIndex
       THEN /\ exc' = [type |-> "FileNotFoundError", status_code |-> 0, detail |-> <<MsgNotFound>>]
            /\ steps' = Append(steps, "retriever")
            /\ pc' = "run_generation_except"
            /\ UNCHANGED <<retriever, loads, documents, searches, query>>
       ELSE LET r == [(IF retriever.loaded THEN retriever ELSE load_local(vector_store))
                        EXCEPT !.k = request.context_chunks]
            IN  /\ retriever' = r
                /\ loads' = IF retriever.loaded THEN loads ELSE loads + 1
                /\ \E found \in invoke(r) :
                     documents' = IF Truthy(request.topic) THEN found
                                  ELSE Take(found, request.context_chunks)
                /\ query' = query_for(request.topic)
                /\ searches' = searches + 1
                /\ steps' = Append(steps, "retriever")
                /\ pc' = "route"
                /\ UNCHANGED exc
  /\ UNCHANGED retrieve_frame

\* --------------------------------------------------------------- agents
\* variant: two keys of route_map name the same node
route_to_agent_shared_node(state) ==
  CASE state.content_type = "MCQ" -> "mcq_agent"
    [] state.content_type = "FillInTheBlank" -> "mcq_agent"
    [] state.content_type = "Summary" -> "summary_agent"
    [] OTHER -> "KeyError"

\* route_map[state['content_type']]
route_to_agent(state) ==
  CASE state.content_type = "MCQ" -> "mcq_agent"
    [] state.content_type = "FillInTheBlank" -> "fitb_agent"
    [] state.content_type = "Summary" -> "summary_agent"
    [] OTHER -> "KeyError"

\* chain.invoke(...) raised: the API call failed or the output did not fit the schema
LLMError == [type |-> "Exception", status_code |-> 0, detail |-> <<"llm call failed">>]

\* state.get(key, default): the default only when the key is missing
state_get(state, key, default) == IF key \in DOMAIN state THEN state[key] ELSE default

\* "general topics"
GeneralTopics == Some(<<"g", "e", "n", "e", "r", "a", "l", " ", "t", "o", "p", "i", "c", "s">>)
\* "the main concepts"
MainConcepts == Some(<<"t", "h", "e", " ", "m", "a", "i", "n", " ", "c", "o", "n", "c", "e", "p", "t", "s">>)

agent_frame == <<vector_store, uploads, retriever, loads, endpoint, body, request, documents,
                 generated_data, response, searches, query, v_vars, c_vars>>

mcq_agent ==
  /\ pc = "route"
  /\ route_to_agent(request) = "mcq_agent"
  /\ steps' = Append(steps, "mcq_agent")
  /\ llm_calls' = llm_calls + 1
  /\ prompts' = Append(prompts, state_get(request, "topic", GeneralTopics))
  /\ \/ \E result \in MCQsResults :
          /\ final_output' = result
          /\ pc' = "validate"
          /\ UNCHANGED exc
     \/ /\ exc' = LLMError
        /\ pc' = "run_generation_except"
        /\ UNCHANGED final_output
  /\ UNCHANGED agent_frame

fitb_agent ==
  /\ pc = "route"
  /\ route_to_agent(request) = "fitb_agent"
  /\ steps' = Append(steps, "fitb_agent")
  /\ llm_calls' = llm_calls + 1
  /\ prompts' = Append(prompts, state_get(request, "topic", GeneralTopics))
  /\ \/ \E result \in FillInTheBlanksResults :
          /\ final_output' = result
          /\ pc' = "validate"
          /\ UNCHANGED exc
     \/ /\ exc' = LLMError
        /\ pc' = "run_generation_except"
        /\ UNCHANGED final_output
  /\ UNCHANGED agent_frame

\* doc.metadata.get("page", 0)
page_of(doc) == IF "page" \in DOMAIN doc.metadata THEN doc.metadata.page ELSE 0

\* sorted(list(S)) for a set of integers
RECURSIVE sorted(_)
sorted(S) ==
  IF S = {} THEN <<>>
  ELSE LET m == CHOOSE x \in S : \A y \in S : x <= y
       IN  <<m>> \o sorted(S \ {m})

\* variant: result.source_pages is left as the LLM returned it
summary_agent_no_override ==
  /\ pc = "route"
  /\ route_to_agent(request) = "summary_agent"
  /\ steps' = Append(steps, "summary_agent")
  /\ llm_calls' = llm_calls + 1
  /\ prompts' = Append(prompts, state_get(request, "topic", MainConcepts))
  /\ \/ \E result \in SummaryResults :
          /\ final_output' = result
          /\ pc' = "validate"
          /\ UNCHANGED exc
     \/ /\ exc' = LLMError
        /\ pc' = "run_generation_except"
        /\ UNCHANGED final_output
  /\ UNCHANGED agent_frame

summary_agent ==
  /\ pc = "route"
  /\ route_to_agent(request) = "summary_agent"
  /\ steps' = Append(steps, "summary_agent")
  /\ llm_calls' = llm_calls + 1
  /\ prompts' = Append(prompts, state_get(request, "topic", MainConcepts))
  /\ LET source_pages == sorted({page_of(documents[i]) : i \in 1..Len(documents)})
     IN  \/ \E result \in SummaryResults :
               /\ final_output' = [result EXCEPT !.source_pages = source_pages]
               /\ pc' = "validate"
               /\ UNCHANGED exc
         \/ /\ exc' = LLMError
            /\ pc' = "run_generation_except"
            /\ UNCHANGED final_output
  /\ UNCHANGED agent_frame

\* ------------------------------------------------------- run_generation
tail_frame == <<vector_store, uploads, retriever, loads, endpoint, body, request, documents,
                searches, query, v_vars, c_vars>>

\* generated_output = final_state.get("final_output");
\* return validate_and_filter_output(generated_output, topic)
run_generation_return ==
  /\ pc = "validate"
  /\ steps' = Append(steps, "validate")
  /\ LET v == validate_and_filter_output(final_output, request.topic)
     IN  IF v.raised
           THEN /\ exc' = [type |-> "Exception", status_code |-> 0, detail |-> <<"validator">>]
                /\ pc' = "run_generation_except"
                /\ UNCHANGED generated_data
           ELSE /\ generated_data' = v.output
                /\ pc' = "endpoint"
                /\ UNCHANGED exc
  /\ UNCHANGED <<tail_frame, final_output, response, llm_calls, prompts>>

\* variant: after a failure the graph is run once more from the router
run_generation_retry ==
  /\ pc = "run_generation_except"
  /\ IF llm_calls = 1
       THEN /\ exc' = NoExc
            /\ pc' = "route"
       ELSE /\ exc' = [type |-> "HTTPException", status_code |-> 500,
                       detail |-> <<"An error occurred during content generation: ">> \o exc.detail]
            /\ pc' = "endpoint_except"
  /\ UNCHANGED <<tail_frame, final_output, generated_data, response, steps, llm_calls, prompts>>

\* except Exception as e: raise HTTPException(status_code=500, detail=f"...{str(e)}")
run_generation_except ==
  /\ pc = "run_generation_except"
  /\ exc' = [type |-> "HTTPException", status_code |-> 500,
             detail |-> <<"An error occurred during content generation: ">> \o exc.detail]
  /\ pc' = "endpoint_except"
  /\ UNCHANGED <<tail_frame, final_output, generated_data, response, steps, llm_calls, prompts>>

\* ------------------------------------------------- the endpoints, tail
\* any(generated_data.values()): some value of the dict is a non-empty list or string
any_values(d) == \E key \in DOMAIN d : Len(d[key]) > 0

Msg404 == "The agent could not generate content for the given topic."

\* the except clauses of generate_questions, in order; every exception raised
\* in the try block is an Exception, an HTTPException included
except_clauses(e) ==
  IF e.type = "FileNotFoundError"
    THEN [status_code |-> 400, detail |-> e.detail]
    ELSE [status_code |-> 500, detail |-> <<"An error occurred: ">> \o e.detail]

\* the emptiness test of the endpoint: generate_questions looks at the values,
\* generate_content only at the dict, which always has a key
is_empty(d) == IF endpoint = "/generate/questions" THEN ~any_values(d) ELSE FALSE

clauses(e) == IF endpoint = "/generate/questions" THEN except_clauses(e) ELSE main_except_clauses(e)

\* run_generation returned: the emptiness test, inside the try block
generate_questions_return ==
  /\ pc = "endpoint"
  /\ response' =
       IF is_empty(generated_data)
         THEN clauses([type |-> "HTTPException", status_code |-> 404, detail |-> <<Msg404>>])
         ELSE [status_code |-> 200, detail |-> <<>>]
  /\ pc' = "responded"
  /\ UNCHANGED <<tail_frame, final_output, generated_data, exc, steps, llm_calls, prompts>>

\* run_generation raised
generate_questions_except ==
  /\ pc = "endpoint_except"
  /\ response' = clauses(exc)
  /\ pc' = "responded"
  /\ UNCHANGED <<tail_frame, final_output, generated_data, exc, steps, llm_calls, prompts>>

\* the response is sent and the request's state is dropped
request_done ==
  /\ pc = "responded"
  /\ pc' = "idle"
  /\ endpoint' = "none"
  /\ body' = Unset
  /\ request' = NoRequest
  /\ documents' = <<>>
  /\ final_output' = Unset
  /\ generated_data' = Unset
  /\ exc' = NoExc
  /\ response' = NoResponse
  /\ searches' = 0
  /\ query' = Unset
  /\ steps' = <<>>
  /\ llm_calls' = 0
  /\ prompts' = <<>>
  /\ UNCHANGED <<vector_store, uploads, retriever, loads, v_vars, c_vars>>

\* ----------------------------------------------------------- the process
NumThreads == 2       \* worker threads serving sync endpoints at once
Threads == 1..NumThreads

run_init ==
  /\ endpoint = "none"
  /\ body = Unset
  /\ request = NoRequest
  /\ documents = <<>>
  /\ final_output = Unset
  /\ generated_data = Unset
  /\ exc = NoExc
  /\ response = NoResponse
  /\ searches = 0
  /\ query = Unset
  /\ steps = <<>>
  /\ llm_calls = 0
  /\ prompts = <<>>

v_off ==
  /\ v_pc = "off"
  /\ v_topic = None
  /\ v_output = Unset
  /\ v_once = Unset
  /\ v_twice = Unset

c_off ==
  /\ c_pc = [t \in Threads |-> "off"]
  /\ c_req = [t \in Threads |-> NoRequest]
  /\ c_docs = [t \in Threads |-> <<>>]
  /\ c_k = [t \in Threads |-> 0]

Init ==
  /\ vector_store = NoIndex
  /\ uploads = {}
  /\ retriever = NoRetriever
  /\ loads = 0
  /\ pc = "idle"
  /\ run_init
  /\ v_off
  /\ c_off

Next ==
  \/ ingest_pdf
  \/ remove_vector_store
  \/ generate_questions
  \/ generate_content
  \/ retrieve_documents
  \/ mcq_agent
  \/ fitb_agent
  \/ summary_agent
  \/ run_generation_return
  \/ run_generation_except
  \/ generate_questions_return
  \/ generate_questions_except
  \/ request_done

Spec == Init /\ [][Next]_vars

\* ------------------------------------------- the validator on its own
\* validate_and_filter_output as a function of (output, topic): every topic
\* up to MaxTopicLen characters, every payload the schemas admit within
\* the pools; applied once, then once more to its own output.
InitV ==
  /\ vector_store = NoIndex
  /\ uploads = {}
  /\ retriever = NoRetriever
  /\ loads = 0
  /\ pc = "off"
  /\ run_init
  /\ c_off
  /\ v_pc = "init"
  /\ v_topic \in AllTopics
  /\ v_output \in MCQsResults \cup FillInTheBlanksResults \cup SummaryResults
  /\ v_once = Unset
  /\ v_twice = Unset

validate_once ==
  /\ v_pc = "init"
  /\ v_once' = validate_and_filter_output(v_output, v_topic)
  /\ v_pc' = "once"
  /\ UNCHANGED <<vector_store, uploads, retriever, loads, pc, run_vars, c_vars,
                 v_topic, v_output, v_twice>>

validate_twice ==
  /\ v_pc = "once"
  /\ ~v_once.raised
  /\ v_twice' = validate_and_filter_output(v_once.output, v_topic)
  /\ v_pc' = "twice"
  /\ UNCHANGED <<vector_store, uploads, retriever, loads, pc, run_vars, c_vars,
                 v_topic, v_output, v_once>>

NextV == validate_once \/ validate_twice

SpecV == InitV /\ [][NextV]_vars

\* ------------------------------- threads inside retrieve_documents
\* generate_questions is a sync endpoint: the framework runs each call on a
\* worker thread, so several threads can be inside retrieve_documents at
\* once. One action per statement that reads or writes the module-level
\* `retriever`; the index persisted before the process started is any of the
\* documents, or none.
ThreadRequests ==
  {validate_request(b).request :
     b \in {x \in Bodies : /\ validate_request(x).ok
                           /\ x.topic \in {None, Some(<<"e">>)}
                           /\ x.content_type = "MCQ"
                           /\ x.num_questions = Omitted}}

InitC ==
  /\ vector_store \in {NoIndex} \cup DocIds
  /\ uploads = {}
  /\ retriever = NoRetriever
  /\ loads = 0
  /\ pc = "off"
  /\ run_init
  /\ v_off
  /\ c_pc = [t \in Threads |-> "idle"]
  /\ c_req = [t \in Threads |-> NoRequest]
  /\ c_docs = [t \in Threads |-> <<>>]
  /\ c_k = [t \in Threads |-> 0]

c_frame == <<vector_store, uploads, pc, run_vars, v_vars>>

\* the graph enters the retriever node with the request's state
c_enter(t) ==
  /\ c_pc[t] = "idle"
  /\ \E r \in ThreadRequests : c_req' = [c_req EXCEPT ![t] = r]
  /\ c_pc' = [c_pc EXCEPT ![t] = "is_none"]
  /\ UNCHANGED <<c_frame, retriever, loads, c_docs, c_k>>

\* if retriever is None:
c_is_none(t) ==
  /\ c_pc[t] = "is_none"
  /\ c_pc' = [c_pc EXCEPT ![t] = IF retriever.loaded THEN "set_k" ELSE "exists"]
  /\ UNCHANGED <<c_frame, retriever, loads, c_req, c_docs, c_k>>

\* if not Path(VECTOR_STORE_PATH).exists(): raise FileNotFoundError
c_exists(t) ==
  /\ c_pc[t] = "exists"
  /\ c_pc' = [c_pc EXCEPT ![t] = IF vector_store = NoIndex THEN "raised" ELSE "load"]
  /\ UNCHANGED <<c_frame, retriever, loads, c_req, c_docs, c_k>>

\* retriever = FAISS.load_local(...).as_retriever()
c_load(t) ==
  /\ c_pc[t] = "load"
  /\ retriever' = load_local(vector_store)
  /\ loads' = loads + 1
  /\ c_pc' = [c_pc EXCEPT ![t] = "set_k"]
  /\ UNCHANGED <<c_frame, c_req, c_docs, c_k>>

\* retriever.search_kwargs['k'] = state['context_chunks']
c_set_k(t) ==
  /\ c_pc[t] = "set_k"
  /\ retriever' = [retriever EXCEPT !.k = c_req[t].context_chunks]
  /\ c_pc' = [c_pc EXCEPT ![t] = "invoke"]
  /\ UNCHANGED <<c_frame, loads, c_req, c_docs, c_k>>

\* documents = retriever.invoke(...), cut to context_chunks without a topic
c_invoke(t) ==
  /\ c_pc[t] = "invoke"
  /\ \E found \in invoke(retriever) :
       c_docs' = [c_docs EXCEPT ![t] = IF Truthy(c_req[t].topic) THEN found
                                       ELSE Take(found, c_req[t].context_chunks)]
  /\ c_k' = [c_k EXCEPT ![t] = search_k(retriever)]
  /\ c_pc' = [c_pc EXCEPT ![t] = "returned"]
  /\ UNCHANGED <<c_frame, retriever, loads, c_req>>

\* the rest of the request runs on the thread's own state
c_leave(t) ==
  /\ c_pc[t] \in {"returned", "raised"}
  /\ c_pc' = [c_pc EXCEPT ![t] = "idle"]
  /\ c_req' = [c_req EXCEPT ![t] = NoRequest]
  /\ c_docs' = [c_docs EXCEPT ![t] = <<>>]
  /\ c_k' = [c_k EXCEPT ![t] = 0]
  /\ UNCHANGED <<c_frame, retriever, loads>>

NextC ==
  \E t \in Threads :
    \/ c_enter(t)
    \/ c_is_none(t)
    \/ c_exists(t)
    \/ c_load(t)
    \/ c_set_k(t)
    \/ c_invoke(t)
    \/ c_leave(t)

SpecC == InitC /\ [][NextC]_vars

\* =============================================================== claims
\* run_generation has returned a payload to the endpoint
returned == pc \in {"endpoint", "responded"} /\ "unset" \notin DOMAIN generated_data
has_questions(d) == "questions" \in DOMAIN d
retrieved_pages == {page_of(documents[i]) : i \in 1..Len(documents)}

\* a JSON body whose fields are within the declared bounds (null num_questions included)
in_bounds(b) ==
  /\ b.content_type \in {"MCQ", "FillInTheBlank", "Summary"}
  /\ \/ Len(b.num_questions) = 0
     \/ Len(b.num_questions[1]) = 0
     \/ b.num_questions[1][1] \in 1..10
  /\ \/ Len(b.context_chunks) = 0
     \/ (Len(b.context_chunks[1]) = 1 /\ b.context_chunks[1][1] \in 1..15)

is_generation == endpoint \in {"/generate/questions", "/generate/content"}

\* C1: a generation request served while no document was ever ingested
\* (nothing uploaded, persisted index absent, handle not loaded) is answered
\* with status 400 and a detail containing 'Vector store not found', never 500.
C1_NoIndexIs400 ==
  (/\ pc = "responded"
   /\ endpoint = "/generate/questions"
   /\ in_bounds(body)
   /\ uploads = {} /\ vector_store = NoIndex /\ ~retriever.loaded)
    => (response.status_code = 400 /\ \E i \in 1..Len(response.detail) : response.detail[i] = MsgNotFound)

C3_EmptyIs404 ==
  (/\ pc = "responded"
   /\ endpoint = "/generate/questions"
   /\ has_questions(generated_data)
   /\ generated_data.questions = <<>>)
    => response.status_code = 404

C5_AtMostRequested ==
  (returned /\ has_questions(generated_data))
    => (Len(request.num_questions) = 1
          => Len(generated_data.questions) <= request.num_questions[1])

\* C5 (amended): run_generation returns at most as many items as the LLM
\* returned; the count is not cut down to num_questions.
C5_AtMostGenerated ==
  (returned /\ has_questions(generated_data))
    => Len(generated_data.questions) <= Len(final_output.questions)

C5_Witness ==
  /\ returned
  /\ has_questions(generated_data)
  /\ Len(request.num_questions) = 1
  /\ Len(generated_data.questions) > request.num_questions[1]

\* C6: the source_pages of a Summary payload is the ascending list, without
\* duplicates, of the pages of the retrieved chunks (0 for a chunk without
\* a page), whatever the LLM returned.
C6_SummaryPages ==
  (returned /\ request.content_type = "Summary")
    => LET sp == generated_data.source_pages
       IN  /\ \A i \in 1..(Len(sp) - 1) : sp[i] < sp[i + 1]
           /\ {sp[i] : i \in 1..Len(sp)} = retrieved_pages

C6_Witness ==
  /\ returned
  /\ request.content_type = "Summary"
  /\ \E i \in 1..Len(documents) : "page" \notin DOMAIN documents[i].metadata
  /\ generated_data.source_pages = <<0, 3>>

\* C7: for a topic with at least one word, every item the validator keeps
\* contains the lower-cased last whitespace-delimited word of the topic in its
\* lower-cased question + explanation + sentence.
IsSpace(c) == c \in {" ", "\t"}
has_word(s) == \E i \in 1..Len(s) : ~IsSpace(s[i])
last_word(s) ==
  LET e == CHOOSE j \in 1..Len(s) : ~IsSpace(s[j]) /\ \A h \in (j + 1)..Len(s) : IsSpace(s[h])
      b == CHOOSE j \in 1..e : /\ \A h \in j..e : ~IsSpace(s[h])
                               /\ (j = 1 \/ IsSpace(s[j - 1]))
  IN  SubSeq(s, b, e)

C7_LastWordInSurvivors ==
  (v_pc = "once" /\ has_questions(v_output) /\ Len(v_topic) = 1 /\ has_word(v_topic[1]))
    => \A i \in 1..Len(v_once.output.questions) :
         LET q == v_once.output.questions[i]
         IN  Contains(Lower(Get(q, "question") \o Get(q, "explanation") \o Get(q, "sentence")),
                      Lower(last_word(v_topic[1])))

\* C8: the validator applied to its own output, with the same topic, returns
\* that output.
C8_Idempotent ==
  v_pc = "twice" => v_twice = v_once

C8_Witness ==
  /\ v_pc = "twice"
  /\ has_questions(v_output)
  /\ Truthy(v_topic)
  /\ Len(v_once.output.questions) = 1
  /\ Len(v_output.questions) = 2

\* C9: every FillInTheBlank item returned by run_generation has a sentence
\* that contains the blank placeholder, with or without a topic.
C9_BlankInSentence ==
  (returned /\ request.content_type = "FillInTheBlank")
    => \A i \in 1..Len(generated_data.questions) :
         Contains(generated_data.questions[i].sentence, BLANK)

C9_Witness ==
  /\ returned
  /\ request.content_type = "FillInTheBlank"
  /\ request.topic = None
  /\ Len(generated_data.questions) = 1
  /\ \E j \in 1..Len(final_output.questions) : ~Contains(final_output.questions[j].sentence, BLANK)

\* C10: the validator raises for no payload and no topic (absent, empty or
\* any string); a question payload stays a question payload, with an empty
\* list when every item is discarded, and a Summary comes back as it went in.
C10_NeverRaises ==
  v_pc = "once"
    => /\ ~v_once.raised
       /\ DOMAIN v_once.output = DOMAIN v_output
       /\ (has_questions(v_output) =>
             \A i \in 1..Len(v_once.output.questions) :
               \E j \in 1..Len(v_output.questions) : v_once.output.questions[i] = v_output.questions[j])
       /\ (~has_questions(v_output) => v_once.output = v_output)

\* C11: once retrieval has succeeded and the run has moved past the router,
\* exactly one strategy has executed, the one that content_type names, whatever
\* the topic, the counts and the retrieved chunks.
Agents == {"mcq_agent", "fitb_agent", "summary_agent"}
IsAgent(x) == x \in Agents
agent_steps == SelectSeq(steps, IsAgent)
strategy_of(ct) ==
  CASE ct = "MCQ" -> "mcq_agent"
    [] ct = "FillInTheBlank" -> "fitb_agent"
    [] ct = "Summary" -> "summary_agent"

C11_OneStrategy ==
  /\ Len(agent_steps) <= 1
  /\ (searches = 1 /\ pc \notin {"retriever", "route"})
       => agent_steps = <<strategy_of(request.content_type)>>

C11_Witness ==
  /\ pc = "responded"
  /\ request.content_type = "FillInTheBlank"
  /\ request.topic = None
  /\ agent_steps = <<"fitb_agent">>
  /\ Len(documents) = 3

\* C12: the steps of a run are, in this order and each at most once, the
\* retrieval step, one generation step and the validation pass; a run whose
\* payload was returned has executed all three, and the chunks and final_output
\* were populated by the step before.
IsPrefix(p, q) == Len(p) <= Len(q) /\ SubSeq(q, 1, Len(p)) = p

C12_StepOrder ==
  /\ \E a \in Agents : IsPrefix(steps, <<"retriever", a, "validate">>)
  /\ Len(agent_steps) = 1 => searches = 1
  /\ (Len(steps) = 3 => "unset" \notin DOMAIN final_output)
  /\ (returned => Len(steps) = 3)

C12_Witness ==
  /\ pc = "responded"
  /\ response.status_code = 200
  /\ steps = <<"retriever", "summary_agent", "validate">>

\* C13: once the shared accessor is loaded, no step of a generation run
\* changes any of its fields, its search parameters included.
C13_AccessorNeverWritten ==
  [][retriever.loaded => retriever' = retriever]_vars

\* C14: the index handle is loaded from the persisted index at most once in
\* the life of the process, whatever the interleaving of the requests.
C14_LoadedAtMostOnce == loads <= 1

\* C15: a run whose LLM call failed is answered with status 500, and no run
\* calls the LLM more than once.
llm_failed == exc.type # "none" /\ exc.detail[Len(exc.detail)] = "llm call failed"

C15_NoRetry ==
  /\ llm_calls <= 1
  /\ (pc = "responded" /\ llm_failed) => response.status_code = 500

C15_Witness ==
  /\ pc = "responded"
  /\ llm_failed
  /\ llm_calls = 1
  /\ response.status_code = 500

\* C16 (as stated): whenever a retrieval or generation step is about to
\* execute, content_type is one of the three variants, num_questions is an
\* integer in 1..10 and context_chunks is an integer in 1..15.
C16_FieldsInRange ==
  pc \in {"retriever", "route"}
    => /\ request.content_type \in {"MCQ", "FillInTheBlank", "Summary"}
       /\ Len(request.num_questions) = 1
       /\ request.num_questions[1] \in 1..10
       /\ request.context_chunks \in 1..15

\* C16 (amended): the same, except that num_questions may also be null; and a
\* body with a field outside these bounds is answered 422 without any step of
\* the graph having run.
C16_FieldsInRangeOrNull ==
  /\ pc \in {"retriever", "route"}
       => /\ request.content_type \in {"MCQ", "FillInTheBlank", "Summary"}
          /\ (Len(request.num_questions) = 1 => request.num_questions[1] \in 1..10)
          /\ request.context_chunks \in 1..15
  /\ (is_generation /\ ~in_bounds(body))
       => (pc = "responded" /\ response.status_code = 422 /\ steps = <<>> /\ searches = 0)

C16_Witness ==
  /\ pc = "route"
  /\ Len(body.num_questions) = 1
  /\ request.num_questions = None
  /\ Len(documents) > 0

\* C17: a /generate/questions body without a topic, its other fields within
\* bounds, is never answered 422; its retrieval issues the fixed generic query
\* and keeps at most context_chunks chunks, and a generation step then follows.
no_topic_run == endpoint = "/generate/questions" /\ Len(body.topic) = 0 /\ in_bounds(body)

C17_NoTopicRuns ==
  no_topic_run
    => /\ response.status_code # 422
       /\ pc # "idle"
       /\ (searches = 1 =>
             /\ query = [fixed |-> "general overview of the document's main concepts"]
             /\ Len(documents) <= request.context_chunks
             /\ (pc = "route" \/ Len(agent_steps) = 1))
       /\ (pc = "route" => ENABLED (mcq_agent \/ fitb_agent \/ summary_agent))

C17_Witness ==
  /\ no_topic_run
  /\ Len(agent_steps) = 1
  /\ request.context_chunks = 1
  /\ Len(documents) = 1
  /\ retriever.store = 1

\* C18: after a successful ingest, POST /generate/content with only a topic
\* and content_type 'MCQ' is answered with status 200.
C18_ContentMCQ200 ==
  (/\ pc = "responded"
   /\ endpoint = "/generate/content"
   /\ vector_store # NoIndex
   /\ uploads # {}
   /\ Truthy(body.topic)
   /\ body.content_type = "MCQ"
   /\ Len(body.num_questions) = 0
   /\ Len(body.context_chunks) = 0)
    => response.status_code = 200

\* C19: an upload whose content type is not application/pdf is answered 400
\* 'Invalid file type'; nothing is written to the upload directory and the
\* persisted index is left as it was.
C19_NonPdfRejected ==
  [][(pc = "idle" /\ endpoint' = "/ingest" /\ body'.content_type # "application/pdf")
       => /\ response'.status_code = 400
          /\ response'.detail = <<"Invalid file type. Only PDF files are allowed.">>
          /\ uploads' = uploads
          /\ vector_store' = vector_store]_vars

C19_Witness ==
  /\ pc = "responded"
  /\ endpoint = "/ingest"
  /\ body.content_type = "text/plain"
  /\ response.status_code = 400
  /\ vector_store # NoIndex
  /\ body.filename \notin uploads

\* C20 (as stated): every MCQ item returned by run_generation has at least two
\* options, one of which is its correct_answer.
C20_OptionsHoldAnswer ==
  (returned /\ request.content_type = "MCQ")
    => \A i \in 1..Len(generated_data.questions) :
         LET q == generated_data.questions[i]
         IN  /\ Len(q.options) >= 2
             /\ \E o \in 1..Len(q.options) : q.options[o] = q.correct_answer

\* C20 (amended): every MCQ item returned by run_generation has a non-empty
\* correct_answer, and its options and correct_answer are those of an item the
\* LLM returned; the number of options and the membership of correct_answer in
\* them are not checked.
C20_AnswerAsGenerated ==
  (returned /\ request.content_type = "MCQ")
    => \A i \in 1..Len(generated_data.questions) :
         LET q == generated_data.questions[i]
         IN  /\ Len(q.correct_answer) > 0
             /\ \E j \in 1..Len(final_output.questions) :
                  /\ final_output.questions[j].options = q.options
                  /\ final_output.questions[j].correct_answer = q.correct_answer

C20_Witness ==
  /\ returned
  /\ request.content_type = "MCQ"
  /\ \E i \in 1..Len(generated_data.questions) :
       LET q == generated_data.questions[i]
       IN  /\ Len(q.options) < 2
           /\ \A o \in 1..Len(q.options) : q.options[o] # q.correct_answer

C10_Witness ==
  /\ v_pc = "once"
  /\ ~Truthy(v_topic)
  /\ has_questions(v_output)
  /\ Len(v_output.questions) = 2
  /\ ~v_once.raised
  /\ v_once.output.questions = <<>>

\* the two rules that do not depend on the topic
satisfies_rules(q) ==
  /\ Len(q.correct_answer) > 0
  /\ ("sentence" \in DOMAIN q => Contains(q.sentence, BLANK))

\* C21: with no topic, validate_and_filter_output returns exactly the items
\* of the input that have a non-empty correct_answer and, when they carry a
\* sentence, a sentence containing the blank placeholder, in input order;
\* a payload without a questions field is returned unchanged.
C21_ExactSubsequence ==
  (v_pc = "once" /\ Len(v_topic) = 0)
    => /\ ~v_once.raised
       /\ IF has_questions(v_output)
            THEN /\ DOMAIN v_once.output = DOMAIN v_output
                 /\ v_once.output.questions = SelectSeq(v_output.questions, satisfies_rules)
            ELSE v_once.output = v_output

C21_Witness ==
  /\ v_pc = "once"
  /\ Len(v_topic) = 0
  /\ has_questions(v_output)
  /\ Len(v_output.questions) = 2
  /\ v_output.questions[1] # v_output.questions[2]
  /\ v_once.output.questions = v_output.questions

\* C22: under any interleaving of concurrent runs sharing the retriever, the
\* chunk list of each run was retrieved with k equal to the run's own
\* context_chunks and has at most that many chunks, with or without a topic.
C22_OwnK ==
  \A t \in Threads :
    c_pc[t] = "returned"
      => /\ c_k[t] = c_req[t].context_chunks
         /\ Len(c_docs[t]) <= c_req[t].context_chunks

\* C23: once an ingest has replaced the persisted index, every run started
\* afterwards retrieves only chunks of the most recently ingested document,
\* also when an earlier run had loaded the handle of the previous document.
C23_ChunksOfLatestIngest ==
  (pc = "route" /\ vector_store # NoIndex)
    => \A i \in 1..Len(documents) :
         \E j \in 1..Len(Splits(vector_store)) : documents[i] = Splits(vector_store)[j]

\* the fallback label of a strategy
fallback_label(content_type) ==
  IF content_type = "Summary"
    THEN Some(<<"t", "h", "e", " ", "m", "a", "i", "n", " ", "c", "o", "n", "c", "e", "p", "t", "s">>)
    ELSE Some(<<"g", "e", "n", "e", "r", "a", "l", " ", "t", "o", "p", "i", "c", "s">>)

\* C24: the topic a strategy substitutes into its prompt is the request's topic
\* when one is present and the strategy's fallback label when it is absent,
\* never the absent value.
C24_PromptTopic ==
  \A i \in 1..Len(prompts) :
    prompts[i] = IF Len(request.topic) = 0 THEN fallback_label(request.content_type)
                 ELSE request.topic

====
